---- MODULE Spec2Model ----
(***************************************************************************)
(* Model of the rating pipeline of the trr repository:                     *)
(*   src/sheet.py  GSP.import_data / GSP._import_games  (writes the games) *)
(*   src/rank.py   RatingCalculator, get_player_rankings (rates them)      *)
(*   src/models.py the tables game, player_game and player                 *)
(*                                                                         *)
(* The update law (openskill's model.rate) and the prior (model.rating)    *)
(* are library calls.  They are represented by an integer stand-in that    *)
(* keeps what the orchestration code can observe: the result is aligned    *)
(* by position with the beliefs passed in, it depends on the model, on the *)
(* beliefs and on the order of the scores, and the call raises ValueError  *)
(* when the score list and the team list differ in length.                 *)
(***************************************************************************)
EXTENDS Integers, Sequences, FiniteSets, TLC

(***************************************************************************)
(* Bounds of the model.                                                    *)
(***************************************************************************)
\* rows of the player table: ids 1..NumPlayers
NumPlayers == 5
\* game rows the import stores before the sheet ends
MaxGames == 2

VARIABLES
    pc,         \* position of the program
    games,      \* table game joined with player_game, in id order
    edge,       \* whether the library's update law has a numerical edge case
    mode,       \* "all" (get_player_rankings) or "single" (one calculator)
    todo,       \* model types get_player_rankings has still to run
    model,      \* self.model of the current RatingCalculator
    players,    \* self.players of the current RatingCalculator (a dict)
    gi,         \* index of the next game of the loop of calculate_ratings
    rankings,   \* the dict rankings of get_player_rankings
    table,      \* table player: per-model score and rank fields
    call,       \* record of the last call of process_game
    requested,  \* model_type of the last RatingCalculator(model_type)
    sheet,      \* games_data of _import_games, when the rows are given
    pos         \* index in games_data of the row the loop reads next

vars ==
    <<pc, games, edge, mode, todo, model, players, gi, rankings, table, call,
      requested, sheet, pos>>

(***************************************************************************)
(* Generic helpers.                                                        *)
(***************************************************************************)
Range(s) == {s[i] : i \in 1..Len(s)}

\* index of the first element of s equal to x, 0 when there is none
RECURSIVE IndexOf(_, _, _)
IndexOf(s, x, i) ==
    IF i > Len(s) THEN 0
    ELSE IF s[i] = x THEN i
    ELSE IndexOf(s, x, i + 1)

\* str(n) for n >= 0, as the sequence of its decimal digits
RECURSIVE ToStr(_)
ToStr(n) == IF n < 10 THEN <<n>> ELSE Append(ToStr(n \div 10), n % 10)

\* int(s) for a sequence of decimal digits
RECURSIVE ParseInt(_)
ParseInt(s) ==
    IF Len(s) = 0 THEN 0
    ELSE 10 * ParseInt(SubSeq(s, 1, Len(s) - 1)) + s[Len(s)]

(***************************************************************************)
(* The rating library, as far as rank.py uses it.                          *)
(***************************************************************************)
\* the three members of RatingModel that rank.py names
PLACKETT_LUCE == "PLACKETT_LUCE"
BRADLEY_TERRY == "BRADLEY_TERRY"
THURSTONE_MOSTELLER == "THURSTONE_MOSTELLER"
RatingModel == {PLACKETT_LUCE, BRADLEY_TERRY, THURSTONE_MOSTELLER}

\* a value that is no member of RatingModel
UNKNOWN_MODEL == "UNKNOWN_MODEL"

\* prior of a new rating, and the scale of the stand-in
Mu0 == 25
Sigma0 == 2
SigmaFloor == 1
\* ordinal() is mu - Z * sigma
Z == 3

\* self.model.rating(name=...): a new rating object with the prior
Rating(name) == [name |-> name, mu |-> Mu0, sigma |-> Sigma0]

\* a belief the spec calls out of bounds: the uncertainty is not positive
OutOfBounds(r) == r.sigma <= 0

\* r.ordinal()
Ordinal(r) == r.mu - Z * r.sigma

Cmp(a, b) == IF a > b THEN 1 ELSE IF a < b THEN -1 ELSE 0

\* how much one comparison with opponent o moves r, per update law
Weight(m, r, o) ==
    IF m = PLACKETT_LUCE THEN r.sigma
    ELSE IF m = BRADLEY_TERRY THEN r.sigma + (IF o.mu > r.mu THEN 1 ELSE 0)
    ELSE 2 * r.sigma

RECURSIVE Gain(_, _, _, _, _)
Gain(m, match, scores, i, j) ==
    IF j > Len(match) THEN 0
    ELSE (IF j = i THEN 0
          ELSE Cmp(scores[i], scores[j]) * Weight(m, match[i], match[j]))
         + Gain(m, match, scores, i, j + 1)

\* the uncertainty after one update; with the edge case the law leaves its
\* floor and returns a non-positive uncertainty
Shrink(sigma, e) ==
    IF sigma > SigmaFloor THEN sigma - 1
    ELSE IF e THEN 0
    ELSE SigmaFloor

\* self.model.rate(match, scores=scores) raises ValueError when a score list
\* is given whose length is not the number of teams.  An empty list is falsy
\* in Python and counts as no score list at all.
RateRaises(match, scores) == Len(scores) # 0 /\ Len(scores) # Len(match)

\* self.model.rate(match, scores=scores) when it does not raise: the updated
\* ratings, aligned with match.  A higher score is a better placement; with
\* no score list the library ranks the teams in list order.
Rate(m, match, scores, e) ==
    LET sc == IF Len(scores) = 0
              THEN [i \in 1..Len(match) |-> Len(match) - i]
              ELSE scores
    IN [i \in 1..Len(match) |->
           [name |-> match[i].name,
            mu |-> match[i].mu + Gain(m, match, sc, i, 1),
            sigma |-> Shrink(match[i].sigma, e)]]

(***************************************************************************)
(* RatingCalculator (src/rank.py).  self.players is a Python dict: here a  *)
(* sequence of entries [id, r] in insertion order, one entry per key.      *)
(***************************************************************************)
Keys(d) == [i \in 1..Len(d) |-> d[i].id]

Has(d, pid) == IndexOf(Keys(d), pid, 1) # 0

Get(d, pid) == d[IndexOf(Keys(d), pid, 1)].r

\* d[pid] = r: overwrites in place, a new key goes to the end
Put(d, pid, r) ==
    IF Has(d, pid)
    THEN [d EXCEPT ![IndexOf(Keys(d), pid, 1)].r = r]
    ELSE Append(d, [id |-> pid, r |-> r])

\* _get_model with a default in place of the raise
GetModelDefault(model_type) ==
    IF model_type = BRADLEY_TERRY THEN BRADLEY_TERRY
    ELSE IF model_type = THURSTONE_MOSTELLER THEN THURSTONE_MOSTELLER
    ELSE PLACKETT_LUCE

\* RatingCalculator._get_model: the model object, or "ValueError"
GetModel(model_type) ==
    IF model_type = PLACKETT_LUCE THEN PLACKETT_LUCE
    ELSE IF model_type = BRADLEY_TERRY THEN BRADLEY_TERRY
    ELSE IF model_type = THURSTONE_MOSTELLER THEN THURSTONE_MOSTELLER
    ELSE "ValueError"

\* _get_or_create_rating without the membership test
GetOrCreateAlways(d, pid) == Put(d, pid, Rating(ToStr(pid)))

\* RatingCalculator._get_or_create_rating: the dict after the call
GetOrCreateRating(d, pid) ==
    IF ~Has(d, pid) THEN Put(d, pid, Rating(ToStr(pid))) ELSE d

\* the dict after _get_or_create_rating of player_ids[i..]
RECURSIVE CreateAll(_, _, _)
CreateAll(d, player_ids, i) ==
    IF i > Len(player_ids) THEN d
    ELSE CreateAll(GetOrCreateRating(d, player_ids[i]), player_ids, i + 1)

\* the write-back loop ending one participant early
RECURSIVE StoreAllButLast(_, _, _, _)
StoreAllButLast(d, player_ids, updated, i) ==
    IF i >= Len(player_ids) \/ i > Len(updated) THEN d
    ELSE StoreAllButLast(Put(d, player_ids[i], updated[i]), player_ids, updated,
                         i + 1)

\* for pid, [rating] in zip(player_ids, updated_ratings): self.players[pid] = rating
RECURSIVE StoreAll(_, _, _, _)
StoreAll(d, player_ids, updated, i) ==
    IF i > Len(player_ids) \/ i > Len(updated) THEN d
    ELSE StoreAll(Put(d, player_ids[i], updated[i]), player_ids, updated, i + 1)

\* scores = [score for _, score in scores]
ScoreList(rows) == [k \in 1..Len(rows) |-> rows[k][2]]

\* RatingCalculator.process_game(game, scores) on the dict d: whether it
\* raised, the dict it leaves, and what it passed to and got from rate
ProcessGame(d, m, game, rows, e) ==
    LET player_ids == game.p
        created == CreateAll(d, player_ids, 1)
        ratings == [i \in 1..Len(player_ids) |-> Get(created, player_ids[i])]
        scores == ScoreList(rows)
    IN IF RateRaises(ratings, scores)
       THEN [raised |-> TRUE, players |-> created, ids |-> player_ids,
             before |-> ratings, scores |-> scores, updated |-> <<>>]
       ELSE LET updated == Rate(m, ratings, scores, e)
            IN [raised |-> FALSE,
                players |-> StoreAll(created, player_ids, updated, 1),
                ids |-> player_ids, before |-> ratings, scores |-> scores,
                updated |-> updated]

\* [(int(r.name), r.ordinal()) for r in self.players.values()]
RatingList(d) == [i \in 1..Len(d) |-> <<ParseInt(d[i].r.name), Ordinal(d[i].r)>>]

\* a descending sort that puts a later entry before its equals
RECURSIVE InsertDescUnstable(_, _)
InsertDescUnstable(sorted, x) ==
    IF Len(sorted) = 0 THEN <<x>>
    ELSE IF sorted[Len(sorted)][2] > x[2] THEN Append(sorted, x)
    ELSE Append(InsertDescUnstable(SubSeq(sorted, 1, Len(sorted) - 1), x),
                sorted[Len(sorted)])

\* sorted(xs, key=lambda x: x[1], reverse=True): stable, so entries with
\* equal keys keep the order they have in xs
RECURSIVE InsertDesc(_, _)
InsertDesc(sorted, x) ==
    IF Len(sorted) = 0 THEN <<x>>
    ELSE IF sorted[Len(sorted)][2] >= x[2] THEN Append(sorted, x)
    ELSE Append(InsertDesc(SubSeq(sorted, 1, Len(sorted) - 1), x),
                sorted[Len(sorted)])

RECURSIVE SortedDesc(_)
SortedDesc(xs) ==
    IF Len(xs) = 0 THEN <<>>
    ELSE InsertDesc(SortedDesc(SubSeq(xs, 1, Len(xs) - 1)), xs[Len(xs)])

(***************************************************************************)
(* The storage (src/models.py) and the import (src/sheet.py).              *)
(* A stored game is [p, rows]: p is <<p1, p2, p3, p4>>, rows are its       *)
(* player_game rows <<player_id, score>> in the order the storage returns  *)
(* them to a query without ORDER BY.                                       *)
(***************************************************************************)
PlayerIds == 1..NumPlayers

\* the player columns of a sheet row, already resolved to player ids: four
\* (or three) neighbours of the player table, taken at its low and at its
\* high end
Asc(a) == <<a, a + 1, a + 2, a + 3>>
Desc(a) == <<a + 3, a + 2, a + 1, a>>
Dup(a) == <<a, a, a + 1, a + 2>>
Short(a) == <<a, a + 1, a + 2>>
Lineups ==
    UNION {{Asc(a), Desc(a), Dup(a), Short(a)} : a \in {1, NumPlayers - 3}}

\* the Result columns of a sheet row
Results == {<<0, 0, 0, 0>>, <<30, 10, -10, -30>>}

\* what _find_tournament and _find_club find for the row
Venues == {"tournament", "club", "none"}

\* the two access paths of the query of calculate_ratings: a scan of the
\* table (insertion order) or of its primary key index (player_id order)
Layouts == {"rowid", "pkey"}

HasDuplicate(lineup) ==
    \E i, j \in 1..Len(lineup) : i < j /\ lineup[i] = lineup[j]

\* the insert loop without the seen_players check
RECURSIVE InsertedRowsNoCheck(_, _, _, _)
InsertedRowsNoCheck(lineup, res, seen, i) ==
    IF i > Len(lineup) THEN <<>>
    ELSE <<<<lineup[i], res[i]>>>> \o InsertedRowsNoCheck(lineup, res, seen, i + 1)

\* the rows the loop over zip(players, scores) inserts, from position i on:
\* a player already in seen_players is skipped
RECURSIVE InsertedRows(_, _, _, _)
InsertedRows(lineup, res, seen, i) ==
    IF i > Len(lineup) THEN <<>>
    ELSE IF lineup[i] \in seen THEN InsertedRows(lineup, res, seen, i + 1)
    ELSE <<<<lineup[i], res[i]>>>>
         \o InsertedRows(lineup, res, seen \cup {lineup[i]}, i + 1)

\* rows in ascending order of player_id (one row per player_id)
RECURSIVE ByPlayerId(_)
ByPlayerId(rows) ==
    IF Len(rows) = 0 THEN <<>>
    ELSE LET k == CHOOSE k \in 1..Len(rows) :
                     \A j \in 1..Len(rows) : rows[k][1] <= rows[j][1]
         IN <<rows[k]>>
            \o ByPlayerId([j \in 1..(Len(rows) - 1) |->
                               IF j < k THEN rows[j] ELSE rows[j + 1]])

Returned(rows, layout) == IF layout = "rowid" THEN rows ELSE ByPlayerId(rows)

\* the Game row and its player_game rows, lines 435-508 of sheet.py
StoredGame(lineup, res, layout) ==
    [p |-> lineup, rows |-> Returned(InsertedRows(lineup, res, {}, 1), layout)]

NoCall ==
    [g |-> 0, raised |-> FALSE, pre |-> <<>>, players |-> <<>>, ids |-> <<>>,
     before |-> <<>>, scores |-> <<>>, updated |-> <<>>]

NoFields == [m \in RatingModel |-> <<>>]

Init ==
    /\ pc = "import"
    /\ games = <<>>
    /\ edge \in BOOLEAN
    /\ mode = "none"
    /\ todo = <<>>
    /\ model = "none"
    /\ players = <<>>
    /\ gi = 0
    /\ rankings = <<>>
    /\ table = [pid \in PlayerIds |-> NoFields]
    /\ call = NoCall
    /\ requested = "none"
    /\ sheet = <<>>
    /\ pos = 0

\* one row of the sheet that is stored as a game
ImportGame ==
    /\ pc = "import"
    /\ Len(games) < MaxGames
    /\ \E lineup \in Lineups, res \in Results, layout \in Layouts,
          venue \in Venues \ {"none"} :
          /\ Len(lineup) = 4
          /\ ~(HasDuplicate(lineup) /\ venue = "club")
          /\ games' = Append(games, StoredGame(lineup, res, layout))
    /\ UNCHANGED <<sheet, pos, pc, edge, mode, todo, model, players, gi, rankings, table, call,
                   requested>>

\* a row with no tournament and no club: continue
ImportSkip ==
    /\ pc = "import"
    /\ Len(games) < MaxGames
    /\ \E lineup \in Lineups : Len(lineup) = 4
    /\ UNCHANGED vars

\* a row that does not have 4 players: break, and import_data commits
ImportBreak ==
    /\ pc = "import"
    /\ \E lineup \in Lineups : Len(lineup) # 4
    /\ pc' = "idle"
    /\ UNCHANGED <<sheet, pos, games, edge, mode, todo, model, players, gi, rankings, table, call,
                   requested>>

\* a club game with a duplicate player: the log message reads
\* tournament.name of None, the exception leaves import_data before its
\* commit and the session is rolled back
ImportRaise ==
    /\ pc = "import"
    /\ Len(games) < MaxGames
    /\ \E lineup \in Lineups : Len(lineup) = 4 /\ HasDuplicate(lineup)
    /\ games' = <<>>
    /\ pc' = "idle"
    /\ UNCHANGED <<sheet, pos, edge, mode, todo, model, players, gi, rankings, table, call,
                   requested>>

\* the end of the sheet: import_data commits
ImportEnd ==
    /\ pc = "import"
    /\ pc' = "idle"
    /\ UNCHANGED <<sheet, pos, games, edge, mode, todo, model, players, gi, rankings, table, call,
                   requested>>

(***************************************************************************)
(* _import_games over a given sheet: the same loop, with games_data fixed  *)
(* at the start and read row by row.                                       *)
(***************************************************************************)
\* a TRR ID of the sheet that no row of the player table has
UnknownId == 0

\* a row whose second player column holds an unknown TRR ID
Unknown(a) == <<a, UnknownId, a + 1, a + 2>>

SheetLineups == {Asc(1), Dup(1), Short(1), Unknown(1)}

\* an entry of games_data: the player columns, the Result columns and what
\* Date and Town resolve to
SheetRows ==
    [lineup : SheetLineups, res : Results, venue : Venues]

\* games_data: at most MaxGames rows
Sheets == UNION {[1..n -> SheetRows] : n \in 0..MaxGames}

\* the lookup loop reaches a TRR ID that session.query(Player) does not find
Unresolved(row) == \E i \in 1..Len(row.lineup) : row.lineup[i] = UnknownId

InitSheet ==
    /\ pc = "import"
    /\ games = <<>>
    /\ edge \in BOOLEAN
    /\ mode = "none"
    /\ todo = <<>>
    /\ model = "none"
    /\ players = <<>>
    /\ gi = 0
    /\ rankings = <<>>
    /\ table = [pid \in PlayerIds |-> NoFields]
    /\ call = NoCall
    /\ requested = "none"
    /\ sheet \in Sheets
    /\ pos = 1

\* the row is stored: Game added and flushed, player_game rows inserted
RowStored ==
    /\ pc = "import"
    /\ pos <= Len(sheet)
    /\ LET row == sheet[pos]
       IN /\ ~Unresolved(row)
          /\ Len(row.lineup) = 4
          /\ row.venue # "none"
          /\ ~(HasDuplicate(row.lineup) /\ row.venue = "club")
          /\ \E layout \in Layouts :
                games' = Append(games, StoredGame(row.lineup, row.res, layout))
    /\ pos' = pos + 1
    /\ UNCHANGED <<pc, edge, mode, todo, model, players, gi, rankings, table, call,
                   requested, sheet>>

\* no tournament and no club for the row: continue
RowContinue ==
    /\ pc = "import"
    /\ pos <= Len(sheet)
    /\ LET row == sheet[pos]
       IN /\ ~Unresolved(row)
          /\ Len(row.lineup) = 4
          /\ row.venue = "none"
    /\ pos' = pos + 1
    /\ UNCHANGED <<pc, games, edge, mode, todo, model, players, gi, rankings, table,
                   call, requested, sheet>>

\* a TRR ID of the row is not found: return, and import_data commits
RowReturn ==
    /\ pc = "import"
    /\ pos <= Len(sheet)
    /\ Unresolved(sheet[pos])
    /\ pc' = "idle"
    /\ UNCHANGED <<games, edge, mode, todo, model, players, gi, rankings, table, call,
                   requested, sheet, pos>>

\* the row has fewer than 4 player columns filled: break, and import_data
\* commits
RowBreak ==
    /\ pc = "import"
    /\ pos <= Len(sheet)
    /\ ~Unresolved(sheet[pos])
    /\ Len(sheet[pos].lineup) # 4
    /\ pc' = "idle"
    /\ UNCHANGED <<games, edge, mode, todo, model, players, gi, rankings, table, call,
                   requested, sheet, pos>>

\* a club game with a duplicate player: the log message raises and the
\* session is rolled back
RowRaise ==
    /\ pc = "import"
    /\ pos <= Len(sheet)
    /\ LET row == sheet[pos]
       IN /\ ~Unresolved(row)
          /\ Len(row.lineup) = 4
          /\ row.venue = "club"
          /\ HasDuplicate(row.lineup)
    /\ games' = <<>>
    /\ pc' = "idle"
    /\ UNCHANGED <<edge, mode, todo, model, players, gi, rankings, table, call,
                   requested, sheet, pos>>

\* the loop has read every row: import_data commits
SheetEnd ==
    /\ pc = "import"
    /\ pos > Len(sheet)
    /\ pc' = "idle"
    /\ UNCHANGED <<games, edge, mode, todo, model, players, gi, rankings, table, call,
                   requested, sheet, pos>>

NextSheet ==
    \/ RowStored
    \/ RowContinue
    \/ RowReturn
    \/ RowBreak
    \/ RowRaise
    \/ SheetEnd

SpecSheet == InitSheet /\ [][NextSheet]_vars

(***************************************************************************)
(* get_player_rankings and RatingCalculator.calculate_ratings.             *)
(***************************************************************************)
\* the list get_player_rankings loops over
ModelOrder == <<PLACKETT_LUCE, BRADLEY_TERRY, THURSTONE_MOSTELLER>>

\* a calculator that starts from the dict of the calculator before it
LeftoverPlayers == players

\* self.players = {} of RatingCalculator.__init__
NewPlayers == <<>>

\* RatingCalculator(model_type): __init__ of a calculator
Construct(model_type, rest) ==
    /\ requested' = model_type
    /\ IF GetModel(model_type) = "ValueError"
       THEN /\ pc' = "raised"
            /\ UNCHANGED <<model, players, gi, todo>>
       ELSE /\ pc' = "rating"
            /\ model' = GetModel(model_type)
            /\ players' = NewPlayers
            /\ gi' = 1
            /\ todo' = rest

\* get_player_rankings(): up to the first calculator
StartRankings ==
    /\ pc = "idle"
    /\ mode' = "all"
    /\ rankings' = <<>>
    /\ Construct(Head(ModelOrder), Tail(ModelOrder))
    /\ UNCHANGED <<sheet, pos, games, edge, table, call>>

\* RatingCalculator(model_type).calculate_ratings() called on its own
StartSingle ==
    /\ pc = "idle"
    /\ \E model_type \in RatingModel \cup {UNKNOWN_MODEL} :
          Construct(model_type, <<>>)
    /\ mode' = "single"
    /\ rankings' = <<>>
    /\ UNCHANGED <<sheet, pos, games, edge, table, call>>

\* a reversed list of the Game rows
RECURSIVE Reversed(_)
Reversed(gs) ==
    IF Len(gs) = 0 THEN <<>> ELSE Append(Reversed(Tail(gs)), Head(gs))

\* games = session.query(Game).all(): Game.id is the rowid of the table,
\* so the rows come back in id order, the order in which they were added
QueryGames(gs) == gs

\* one iteration of the loop of calculate_ratings: the query and process_game
GameStep ==
    /\ pc = "rating"
    /\ gi <= Len(games)
    /\ LET game == QueryGames(games)[gi]
           res == ProcessGame(players, model, game, game.rows, edge)
       IN /\ players' = res.players
          /\ call' = [g |-> gi, raised |-> res.raised, pre |-> players,
                      players |-> res.players, ids |-> res.ids,
                      before |-> res.before, scores |-> res.scores,
                      updated |-> res.updated]
          /\ IF res.raised
             THEN pc' = "failed" /\ gi' = gi
             ELSE pc' = pc /\ gi' = gi + 1
    /\ UNCHANGED <<sheet, pos, games, edge, mode, todo, model, rankings, table, requested>>

\* what calculate_ratings returns, as get_player_rankings keeps it
Leaderboard(d) == SortedDesc(RatingList(d))

\* the end of calculate_ratings; get_player_rankings sorts the result and
\* goes on to the next model, or to the update of the player table
FinishModel ==
    /\ pc = "rating"
    /\ gi > Len(games)
    /\ rankings' = Append(rankings, [m |-> model, list |-> Leaderboard(players)])
    /\ IF mode = "all" /\ Len(todo) > 0
       THEN Construct(Head(todo), Tail(todo))
       ELSE /\ pc' = IF mode = "all" THEN "persist" ELSE "done"
            /\ gi' = 1
            /\ UNCHANGED <<model, players, todo, requested>>
    /\ UNCHANGED <<sheet, pos, games, edge, mode, table, call>>

\* ranks without the + 1
EntryOfZeroBased(list, pid) ==
    LET i == IndexOf([k \in 1..Len(list) |-> list[k][1]], pid, 1)
    IN IF i = 0 THEN <<>> ELSE <<list[i][2], i - 1>>

\* scores[player_id] and ranks[player_id] of one model's rankings
EntryOf(list, pid) ==
    LET i == IndexOf([k \in 1..Len(list) |-> list[k][1]], pid, 1)
    IN IF i = 0 THEN <<>> ELSE <<list[i][2], i>>

\* the if/elif chain with the Bradley-Terry branch writing the
\* Plackett-Luce fields
SetFieldsWrongBranch(fields, m, entry) ==
    IF m = PLACKETT_LUCE THEN [fields EXCEPT ![PLACKETT_LUCE] = entry]
    ELSE IF m = BRADLEY_TERRY THEN [fields EXCEPT ![PLACKETT_LUCE] = entry]
    ELSE IF m = THURSTONE_MOSTELLER
    THEN [fields EXCEPT ![THURSTONE_MOSTELLER] = entry]
    ELSE fields

\* the if/elif chain on model_type: the score and rank fields of one player
\* row after the assignment
SetFields(fields, m, entry) ==
    IF m = PLACKETT_LUCE THEN [fields EXCEPT ![PLACKETT_LUCE] = entry]
    ELSE IF m = BRADLEY_TERRY THEN [fields EXCEPT ![BRADLEY_TERRY] = entry]
    ELSE IF m = THURSTONE_MOSTELLER
    THEN [fields EXCEPT ![THURSTONE_MOSTELLER] = entry]
    ELSE fields

\* one iteration of the loop over rankings.items(), with its commit
PersistStep ==
    /\ pc = "persist"
    /\ gi <= Len(rankings)
    /\ LET m == rankings[gi].m
           list == rankings[gi].list
       IN table' = [pid \in PlayerIds |->
                       IF EntryOf(list, pid) # <<>>
                       THEN SetFields(table[pid], m, EntryOf(list, pid))
                       ELSE table[pid]]
    /\ gi' = gi + 1
    /\ pc' = IF gi = Len(rankings) THEN "done" ELSE pc
    /\ UNCHANGED <<sheet, pos, games, edge, mode, todo, model, players, rankings, call,
                   requested>>

Next ==
    \/ ImportGame
    \/ ImportSkip
    \/ ImportBreak
    \/ ImportRaise
    \/ ImportEnd
    \/ StartRankings
    \/ StartSingle
    \/ GameStep
    \/ FinishModel
    \/ PersistStep

Spec == Init /\ [][Next]_vars

(***************************************************************************)
(* The two scripts run again on the same database file.                    *)
(***************************************************************************)
\* the player table as create_all makes it: every per-model score and rank
\* field of every row is empty
EmptyTable == [pid \in PlayerIds |-> NoFields]

\* the rank.py process has ended (returned or raised); the database stays,
\* the objects of the process are gone
ProcessEnd ==
    /\ pc \in {"done", "failed", "raised"}
    /\ pc' = "idle"
    /\ mode' = "none"
    /\ todo' = <<>>
    /\ model' = "none"
    /\ players' = <<>>
    /\ gi' = 0
    /\ rankings' = <<>>
    /\ call' = NoCall
    /\ requested' = "none"
    /\ UNCHANGED <<sheet, pos, games, edge, table>>

\* GSP(id): every table is dropped and created again, then import_data runs
Reimport ==
    /\ pc = "idle"
    /\ pc' = "import"
    /\ games' = <<>>
    /\ table' = EmptyTable
    /\ UNCHANGED <<sheet, pos, edge, mode, todo, model, players, gi, rankings, call,
                   requested>>

NextRerun == Next \/ ProcessEnd \/ Reimport

SpecRerun == Init /\ [][NextRerun]_vars

(***************************************************************************)
(* Reference definitions used by the properties.                           *)
(***************************************************************************)
\* the score recorded in player_game for player pid of game
ScoreOf(game, pid) ==
    game.rows[IndexOf([k \in 1..Len(game.rows) |-> game.rows[k][1]], pid, 1)][2]

HasRow(game, pid) == \E k \in 1..Len(game.rows) : game.rows[k][1] = pid

\* a game with 4 distinct participants and a score row for each
WellFormed(game) ==
    /\ ~HasDuplicate(game.p)
    /\ Len(game.rows) = 4
    /\ \A i \in 1..4 : HasRow(game, game.p[i])

\* one calculator run over gs[i..] from the store d; it stops where
\* process_game raises
RECURSIVE RunFrom(_, _, _, _, _)
RunFrom(m, gs, d, i, e) ==
    IF i > Len(gs) THEN d
    ELSE LET res == ProcessGame(d, m, gs[i], gs[i].rows, e)
         IN IF res.raised THEN res.players
            ELSE RunFrom(m, gs, res.players, i + 1, e)

\* the run of model m alone, from a fresh empty belief store
RunAlone(m, gs, e) == RunFrom(m, gs, <<>>, 1, e)

\* the same stored history with every game's score rows in the order of
\* the game's participants
Aligned(game) ==
    [p |-> game.p,
     rows |-> InsertedRows(game.p,
                           [i \in 1..4 |-> IF HasRow(game, game.p[i])
                                            THEN ScoreOf(game, game.p[i])
                                            ELSE 0],
                           {}, 1)]

AlignedHistory(gs) == [i \in 1..Len(gs) |-> Aligned(gs[i])]

\* the players of gs in the order in which they are first seen
RECURSIVE FirstSeen(_, _, _)
FirstSeen(gs, i, acc) ==
    IF i > Len(gs) THEN acc
    ELSE FirstSeen(gs, i + 1,
                   acc \o SelectSeq(
                       [k \in 1..4 |-> IF /\ gs[i].p[k] \notin Range(acc)
                                          /\ IndexOf(gs[i].p, gs[i].p[k], 1) = k
                                       THEN gs[i].p[k] ELSE 0],
                       LAMBDA x : x # 0))

Participants(gs) == UNION {Range(gs[i].p) : i \in 1..Len(gs)}

Ids(list) == [k \in 1..Len(list) |-> list[k][1]]

\* the run completed and returned its leaderboards
Returned3 == pc \in {"persist", "done"} /\ mode = "all"

(***************************************************************************)
(* C1.  For every game processed by process_game, the score passed to the  *)
(* update law at position i is the score recorded in player_game for the   *)
(* participant at position i of [p1, p2, p3, p4], and the belief written   *)
(* back for that participant is the output at position i, whatever order   *)
(* the storage returns the score rows in.                                  *)
(***************************************************************************)
C1_ScoresAligned ==
    (call.g > 0 /\ WellFormed(games[call.g])) =>
        /\ Len(call.scores) = 4
        /\ ~call.raised
        /\ \A i \in 1..4 :
              /\ call.scores[i] = ScoreOf(games[call.g], call.ids[i])
              /\ Get(call.players, call.ids[i]) = call.updated[i]

(***************************************************************************)
(* C2.  get_player_rankings is equivalent to three separate runs, one per  *)
(* model, each from a fresh empty belief store: every leaderboard it       *)
(* builds is the leaderboard of that model run alone.                      *)
(***************************************************************************)
C2_ModelsIndependent ==
    \A k \in 1..Len(rankings) :
        rankings[k].list = Leaderboard(RunAlone(rankings[k].m, games, edge))

C2_Witness ==
    /\ pc = "done"
    /\ mode = "all"
    /\ Len(rankings) = 3
    /\ Len(games) = MaxGames
    /\ rankings[1].list # rankings[2].list
    /\ rankings[2].list # rankings[3].list

(***************************************************************************)
(* C3.  A game with fewer than 4 score rows is handled by the configured   *)
(* policy: under the lenient policy it is skipped, the beliefs stay as     *)
(* they were and the pass goes on; under the strict policy the run reports *)
(* the error and no leaderboard is produced or persisted.                  *)
(***************************************************************************)
Policies == {"lenient", "strict"}

C3_PolicyRespected ==
    \A policy \in Policies :
        (call.g > 0 /\ Len(games[call.g].rows) < 4) =>
            IF policy = "lenient"
            THEN ~call.raised /\ call.players = call.pre /\ pc # "failed"
            ELSE /\ pc = "failed"
                 /\ rankings = <<>>
                 /\ table = [pid \in PlayerIds |-> NoFields]

(***************************************************************************)
(* C4.  A game in which one player id fills two of the positions p1..p4    *)
(* is an error: the update law is not applied to it, the run stops, no     *)
(* stored belief is changed by it and nothing is written back for it.      *)
(***************************************************************************)
C4_DuplicateIsError ==
    (call.g > 0 /\ HasDuplicate(call.ids)) =>
        /\ call.raised
        /\ call.updated = <<>>
        /\ pc = "failed"
        /\ \A k \in 1..Len(call.pre) : call.players[k] = call.pre[k]
        /\ \A k \in 1..Len(call.players) :
              k > Len(call.pre) =>
                  call.players[k].r = Rating(ToStr(call.players[k].id))
        /\ players = call.players

C4_Witness ==
    /\ call.g = 2
    /\ HasDuplicate(call.ids)
    /\ \E i \in 1..4 : Has(call.pre, call.ids[i])
    /\ \E i \in 1..4 : ~Has(call.pre, call.ids[i])

(***************************************************************************)
(* C5.  Each game's update is all-or-nothing: when process_game has        *)
(* returned or raised, either all 4 participants hold the beliefs the      *)
(* update law produced for the game, or all 4 hold the values they had     *)
(* before it (the prior for a participant first seen in it).               *)
(***************************************************************************)
ValueBefore(d, pid) == IF Has(d, pid) THEN Get(d, pid) ELSE Rating(ToStr(pid))

C5_AllOrNothing ==
    call.g > 0 =>
        \/ /\ ~call.raised
           /\ \A i \in 1..4 : Get(call.players, call.ids[i]) = call.updated[i]
        \/ /\ call.raised
           /\ \A i \in 1..4 :
                 Get(call.players, call.ids[i]) = ValueBefore(call.pre, call.ids[i])

C5_Witness ==
    /\ call.g = 2
    /\ ~call.raised
    /\ \E i \in 1..4 : Has(call.pre, call.ids[i])
    /\ \E i \in 1..4 : ~Has(call.pre, call.ids[i])
    /\ \A i \in 1..4 : call.updated[i] # ValueBefore(call.pre, call.ids[i])

(***************************************************************************)
(* C6.  Every leaderboard is sorted by score descending, and players with  *)
(* equal scores appear in ascending order of player id.                    *)
(***************************************************************************)
C6_TiesByAscendingId ==
    \A k \in 1..Len(rankings) :
        LET list == rankings[k].list
        IN \A i, j \in 1..Len(list) :
               i < j => /\ list[i][2] >= list[j][2]
                        /\ (list[i][2] = list[j][2] => list[i][1] < list[j][1])

\* C6 as amended: every leaderboard is sorted by score descending, and
\* players with equal scores appear in the order in which the pass first
\* saw them (the insertion order of the belief store).
C6_TiesByFirstSeen ==
    \A k \in 1..Len(rankings) :
        LET list == rankings[k].list
            seen == FirstSeen(games, 1, <<>>)
        IN \A i, j \in 1..Len(list) :
               i < j => /\ list[i][2] >= list[j][2]
                        /\ (list[i][2] = list[j][2] =>
                                IndexOf(seen, list[i][1], 1)
                                    < IndexOf(seen, list[j][1], 1))

C6_Witness ==
    /\ pc = "done"
    /\ \E k \in 1..Len(rankings) :
          LET list == rankings[k].list
          IN /\ \E i, j \in 1..Len(list) :
                   i < j /\ list[i][2] = list[j][2] /\ list[i][1] > list[j][1]
             /\ \E i, j \in 1..Len(list) : list[i][2] > list[j][2]

(***************************************************************************)
(* C7.  For every model the leaderboard has exactly one entry per player   *)
(* of the processed games, and the rank stored for a player is the 1-based *)
(* position of the player after the stable descending sort: the ranks are  *)
(* 1..N, each used once, and a higher score never has a larger rank.       *)
(***************************************************************************)
C7_RanksArePositions ==
    (pc = "done" /\ mode = "all") =>
        \A k \in 1..Len(rankings) :
            LET list == rankings[k].list
                m == rankings[k].m
                N == Cardinality(Participants(games))
                seen == FirstSeen(games, 1, <<>>)
            IN /\ Len(list) = N
               /\ Range(Ids(list)) = Participants(games)
               /\ \A i \in 1..N : table[list[i][1]][m] = <<list[i][2], i>>
               /\ {table[pid][m][2] : pid \in Participants(games)} = 1..N
               /\ \A a, b \in Participants(games) :
                     /\ table[a][m][1] > table[b][m][1]
                            => table[a][m][2] < table[b][m][2]
                     /\ (/\ table[a][m][1] = table[b][m][1]
                         /\ IndexOf(seen, a, 1) < IndexOf(seen, b, 1))
                            => table[a][m][2] < table[b][m][2]

C7_Witness ==
    /\ pc = "done"
    /\ mode = "all"
    /\ Cardinality(Participants(games)) = NumPlayers
    /\ \E a, b \in Participants(games) :
          /\ a > b
          /\ table[a][PLACKETT_LUCE][1] = table[b][PLACKETT_LUCE][1]
          /\ table[a][PLACKETT_LUCE][2] < table[b][PLACKETT_LUCE][2]
    /\ \E a, b \in Participants(games) :
          table[a][PLACKETT_LUCE][1] > table[b][PLACKETT_LUCE][1]

(***************************************************************************)
(* C8.  Determinism: for a fixed stored history the leaderboards of        *)
(* get_player_rankings are the same in every execution, whatever order the *)
(* storage returns the rows in; so they are the leaderboards of the        *)
(* execution in which every game's rows come back in participant order.    *)
(***************************************************************************)
C8_Deterministic ==
    Returned3 =>
        \A k \in 1..Len(rankings) :
            rankings[k].list =
                Leaderboard(RunAlone(rankings[k].m, AlignedHistory(games), edge))

(***************************************************************************)
(* C9.  Requesting a model that is none of the three RatingModel variants  *)
(* is fatal to the call: the constructor raises, no model is substituted,  *)
(* no belief store is filled and no leaderboard or stored score or rank    *)
(* results from the call.                                                  *)
(***************************************************************************)
C9_UnknownModelFatal ==
    requested = UNKNOWN_MODEL =>
        /\ pc = "raised"
        /\ model \notin RatingModel
        /\ players = <<>>
        /\ rankings = <<>>
        /\ call = NoCall
        /\ table = [pid \in PlayerIds |-> NoFields]

C9_Witness == requested = UNKNOWN_MODEL /\ pc = "raised" /\ Len(games) > 0

(***************************************************************************)
(* C10.  A belief that is out of bounds (a non-positive uncertainty)       *)
(* returned by the update law is detected right after the update and       *)
(* raised: it is never stored in the belief store, never passed to a later *)
(* update and never reaches a leaderboard.                                 *)
(***************************************************************************)
C10_NoOutOfBoundsStored ==
    /\ \A k \in 1..Len(players) : ~OutOfBounds(players[k].r)
    /\ \A i \in 1..Len(call.before) : ~OutOfBounds(call.before[i])

(***************************************************************************)
(* C11.  Games are processed one at a time in the order supplied, and the  *)
(* belief store always reflects a consistent prefix: once k games have     *)
(* been processed the store is the result of a complete run over exactly   *)
(* the first k games, and only participants of those k games have beliefs. *)
(***************************************************************************)
Prefix(gs, k) == SubSeq(gs, 1, k)

C11_ConsistentPrefix ==
    pc = "rating" =>
        /\ gi \in 1..(Len(games) + 1)
        /\ players = RunAlone(model, Prefix(games, gi - 1), edge)
        /\ Range(Keys(players)) = Participants(Prefix(games, gi - 1))
        /\ (gi > 1 => call.g = gi - 1 /\ call.ids = games[gi - 1].p)

C11_Witness ==
    /\ pc = "rating"
    /\ gi = 2
    /\ Len(games) = 2
    /\ games[1].p # games[2].p
    /\ \E i \in 1..4 : ~Has(players, games[2].p[i])
    /\ players # RunAlone(model, Prefix(games, 0), edge)
    /\ players # RunAlone(model, games, edge)

(***************************************************************************)
(* C12.  After get_player_rankings has committed, the score and rank       *)
(* fields of every stored player for every model are that player's entry   *)
(* in the leaderboard just computed for the model (empty for a player who  *)
(* is in no game), also when the fields held the results of an earlier     *)
(* run; and writing one model's results changes no field of another model. *)
(***************************************************************************)
ListOf(m) ==
    rankings[IndexOf([k \in 1..Len(rankings) |-> rankings[k].m], m, 1)].list

C12_Committed ==
    (pc = "done" /\ mode = "all") =>
        \A pid \in PlayerIds, m \in RatingModel :
            table[pid][m] = EntryOf(ListOf(m), pid)

C12_OtherModelsKept ==
    pc = "persist" =>
        \A pid \in PlayerIds, m \in RatingModel :
            m # rankings[gi].m => table'[pid][m] = table[pid][m]

C14_KeysAreParticipants ==
    /\ \A i, j \in 1..Len(players) : players[i].id = players[j].id => i = j
    /\ pc = "rating" =>
           Range(Keys(players)) = Participants(Prefix(games, gi - 1))

\* one call of process_game, from the state before it to the state after
C14_GameStepKeepsStore ==
    (pc = "rating" /\ gi <= Len(games)) =>
        /\ Len(players') >= Len(players)
        /\ \A k \in 1..Len(players) : players'[k].id = players[k].id
        /\ \A i \in 1..4 :
              call'.before[i] = ValueBefore(players, call'.ids[i])
        /\ \A k \in 1..Len(players') :
              LET old == IF k <= Len(players) THEN players[k].r
                         ELSE Rating(ToStr(players'[k].id))
              IN players'[k].r # old =>
                     /\ ~call'.raised
                     /\ \E i \in 1..4 : /\ call'.ids[i] = players'[k].id
                                         /\ players'[k].r = call'.updated[i]

C14_StoreInvariant == []C14_KeysAreParticipants /\ [][C14_GameStepKeepsStore]_vars

C14_Witness ==
    /\ call.g = 2
    /\ ~call.raised
    /\ \E i \in 1..4 :
          /\ Has(call.pre, call.ids[i])
          /\ Get(call.pre, call.ids[i]) # Rating(ToStr(call.ids[i]))
          /\ call.before[i] = Get(call.pre, call.ids[i])
    /\ \E i \in 1..4 : ~Has(call.pre, call.ids[i])
    /\ \E k \in 1..Len(call.pre) : call.pre[k].id \notin Range(call.ids)

(***************************************************************************)
(* C15.  Every Game stored by _import_games has four pairwise distinct     *)
(* participants p1..p4 and exactly 4 player_game rows, one for each of     *)
(* them; a sheet row that lists a player twice leaves no stored Game with  *)
(* a repeated participant or with fewer than 4 rows.                       *)
(***************************************************************************)
C15_StoredGamesWellFormed ==
    pc # "import" => \A i \in 1..Len(games) : WellFormed(games[i])

(***************************************************************************)
(* C16.  A sheet row that cannot be imported (it does not resolve to       *)
(* exactly 4 players, or it has no tournament and no club) is skipped on   *)
(* its own: when the import has ended, the stored games are the importable *)
(* rows of the sheet, in order, wherever the other rows sit.  Stated for   *)
(* the sheets in which no row lists a player twice.                        *)
(***************************************************************************)
Importable(row) ==
    /\ ~Unresolved(row)
    /\ Len(row.lineup) = 4
    /\ row.venue # "none"

ImportableRows(sh) == SelectSeq(sh, Importable)

C16_ImportableRowsStored ==
    (/\ pc = "idle"
     /\ \A k \in 1..Len(sheet) : ~HasDuplicate(sheet[k].lineup)) =>
        /\ Len(games) = Len(ImportableRows(sheet))
        /\ \A k \in 1..Len(games) : games[k].p = ImportableRows(sheet)[k].lineup

====
